---- MODULE Spec2Model ----
(***************************************************************************)
(* Model of the proposal extraction pipeline of PDF_parser.                *)
(* The repository holds two scripts that define the same class,            *)
(* ProposalExtractorGemini: src/main.py and src/main1.py.  The variable    *)
(* variant says which script a behaviour runs; both are modelled         *)
(* statement by statement, the external service (upload, generate,         *)
(* delete) being the nondeterministic environment.                         *)
(***************************************************************************)
EXTENDS Integers, Sequences, FiniteSets, TLC

VARIABLES
    variant,        \* "main" (src/main.py) or "main1" (src/main1.py)
    files,          \* the file system: path -> sheet, or NoFile
    pdf_files,      \* discovered documents, in discovery order
    excel_path,     \* argument of update_excel_with_proposals
    output_path,    \* argument of update_excel_with_proposals, after defaulting
    run,            \* number of the current run of the pipeline
    pc,             \* position of the run
    wb,             \* the openpyxl workbook in memory
    df,             \* the pandas frame read from excel_path
    row_idx,        \* index of the current record (0-based)
    cur_pdf,        \* matching_pdfs[0] of the current record
    upload_attempts,\* local of extract_from_pdf (main.py)
    attempt,        \* loop variable of extract_from_pdf
    pdf_file,       \* handle of the uploaded document, 0 when none
    data,           \* decoded response awaiting return
    ret,            \* value returned by extract_from_pdf
    next_handle,    \* handles handed out by the service so far in this call
    released,       \* handles on which delete() was called in this call
    del_raised,     \* whether a delete() call raised in this call
    up_hist,        \* outcomes of the upload calls of this call, in order
    gen_hist,       \* outcomes of the generate calls of this call, in order
    last_text,      \* text returned by the last generate call of this call
    live,           \* handles uploaded by this run and not yet deleted
    resolved,       \* per record: identifier and candidates it resolved to
    log,            \* diagnostics printed by the current run
    okRows,         \* records written from a result by the current run
    persisted       \* records whose written result a run has saved

vars == << variant, files, pdf_files, excel_path, output_path, run, pc, wb, df,
           row_idx, cur_pdf, upload_attempts, attempt, pdf_file, data, ret,
           next_handle, released, del_raised, up_hist, gen_hist, last_text,
           live, resolved, log, okRows, persisted >>

----------------------------------------------------------------------------
(* Bounds of the model *)
MaxRows == 2
MaxRuns == 2

(* Program constants *)
max_retries == 2
header == 4

----------------------------------------------------------------------------
(* The extraction schema: keys col_l .. col_ab and their sheet columns *)
KeySeq == << "col_l", "col_m", "col_n", "col_o", "col_p", "col_q", "col_r",
             "col_s", "col_t", "col_u", "col_v", "col_w", "col_x", "col_y",
             "col_z", "col_aa", "col_ab" >>

Keys == { KeySeq[i] : i \in 1..Len(KeySeq) }

\* the cell assignments of main.py, in source order: column letter, key
WritesMain ==
    << <<"L", "col_l">>, <<"M", "col_m">>, <<"N", "col_n">>, <<"O", "col_o">>,
       <<"P", "col_p">>, <<"Q", "col_q">>, <<"R", "col_r">>, <<"S", "col_s">>,
       <<"T", "col_t">>, <<"U", "col_u">>, <<"V", "col_v">>, <<"W", "col_w">>,
       <<"X", "col_x">>, <<"Y", "col_y">>, <<"Z", "col_z">>,
       <<"AA", "col_aa">>, <<"AB", "col_ab">> >>

\* the cell assignments of main1.py: L..Z only
WritesMain1 == SubSeq(WritesMain, 1, 15)

Writes(v) == IF v = "main" THEN WritesMain ELSE WritesMain1

\* the target columns of the sheet, L..AB
Letters == { WritesMain[i][1] : i \in 1..Len(WritesMain) }

\* the characters of a column letter of a cell address such as AA6
ColumnChars(letter) ==
    IF letter = "AA" THEN << "A", "A" >>
    ELSE IF letter = "AB" THEN << "A", "B" >>
    ELSE << letter >>

Alphabet == << "A", "B", "C", "D", "E", "F", "G", "H", "I", "J", "K", "L", "M",
               "N", "O", "P", "Q", "R", "S", "T", "U", "V", "W", "X", "Y", "Z" >>

LetterValue(ch) == CHOOSE n \in 1..Len(Alphabet) : Alphabet[n] = ch

\* the 1-indexed sheet column a column letter addresses (bijective base 26)
RECURSIVE column_index(_)
column_index(chars) ==
    IF chars = << >> THEN 0
    ELSE 26 * column_index(SubSeq(chars, 1, Len(chars) - 1))
         + LetterValue(chars[Len(chars)])

\* required_fields of main1.py's validation
required_fields == SubSeq(KeySeq, 1, 15)

\* the column under the header main.py tests to decide "already filled":
\* the two-faculty-members criterion, COLUMN V of the prompt
FilledLetter == "V"

None == "None"
Sentinel == "-"

EmptyCells == [c \in Letters |-> None]
FilledCells == [c \in Letters |-> "old"]

----------------------------------------------------------------------------
(* JSON values a response can decode to.  An object is its key -> value   *)
(* mapping; the other kinds matter only through their truth value.        *)
Obj(f) == [kind |-> "object", fields |-> f]

JFullYes == Obj([k \in Keys |-> "Yes"])
JFullNo == Obj([k \in Keys |-> "No"])
JMissL == Obj([k \in Keys \ {"col_l"} |-> "Yes"])
JOnlyLZ == Obj([k \in Keys \ {"col_aa", "col_ab"} |-> "No"])
JFoo == Obj([k \in {"foo"} |-> "Yes"])
JEmptyObj == Obj([k \in {} |-> "Yes"])
\* an object whose values tell the keys apart: each key holds its own name
JDistinct == Obj([k \in Keys |-> k])
JList == [kind |-> "list", fields |-> [k \in {"0"} |-> "Yes"]]

\* Python's None: the failure value of extract_from_pdf, and what
\* json.loads gives for the text null
PyNone == [kind |-> "none", fields |-> [k \in {} |-> "Yes"]]

\* body token -> the value json.loads gives for it
JsonOf(tok) ==
    CASE tok = "{full-yes}" -> JFullYes
      [] tok = "{full-no}" -> JFullNo
      [] tok = "{no-col_l}" -> JMissL
      [] tok = "{l..z}" -> JOnlyLZ
      [] tok = "{foo}" -> JFoo
      [] tok = "{}" -> JEmptyObj
      [] tok = "[1]" -> JList
      [] tok = "null" -> PyNone
      [] tok = "{distinct}" -> JDistinct

JsonTokens == { "{full-yes}", "{full-no}", "{no-col_l}", "{l..z}", "{foo}",
                "{}", "[1]", "null", "{distinct}" }

\* Python truth value of a decoded value: 'if extracted_data:'
Truthy(d) == DOMAIN d.fields # {}

\* dict.get(key, default); a value without .get raises AttributeError
HasGet(d) == d.kind = "object"
Get(d, k, default) == IF k \in DOMAIN d.fields THEN d.fields[k] ELSE default

\* 'f not in data' of main1.py raises TypeError on a value that is no container
HasIn(d) == d.kind \in {"object", "list"}
missing_fields(d) ==
    IF d.kind = "object"
    THEN SelectSeq(required_fields, LAMBDA f : f \notin DOMAIN d.fields)
    ELSE required_fields

----------------------------------------------------------------------------
(* Response text: a sequence of tokens.  "FENCE_JSON" and "FENCE" are the  *)
(* code-fence markers (three backquotes, with and without json), " " is    *)
(* whitespace, the JsonTokens are bodies, anything else ("note") is prose  *)
(* that json.loads rejects.                                                *)
RECURSIVE lstrip(_)
lstrip(t) == IF t # << >> /\ Head(t) = " " THEN lstrip(Tail(t)) ELSE t

RECURSIVE rstrip(_)
rstrip(t) ==
    IF t # << >> /\ t[Len(t)] = " " THEN rstrip(SubSeq(t, 1, Len(t) - 1)) ELSE t

strip(t) == rstrip(lstrip(t))

startswith(t, tok) == t # << >> /\ Head(t) = tok
endswith(t, tok) == t # << >> /\ t[Len(t)] = tok
DropLast(t) == SubSeq(t, 1, Len(t) - 1)

\* src/main.py: strip, two independent prefix tests, suffix test, strip
NormalizeMain(t) ==
    LET t0 == strip(t)
        t1 == IF startswith(t0, "FENCE_JSON") THEN Tail(t0) ELSE t0
        t2 == IF startswith(t1, "FENCE") THEN Tail(t1) ELSE t1
        t3 == IF endswith(t2, "FENCE") THEN DropLast(t2) ELSE t2
    IN  strip(t3)

\* src/main1.py: no leading strip, if/elif prefix test, suffix test, strip
NormalizeMain1(t) ==
    LET t1 == IF startswith(t, "FENCE_JSON") THEN Tail(t)
              ELSE IF startswith(t, "FENCE") THEN Tail(t) ELSE t
        t2 == IF endswith(t1, "FENCE") THEN DropLast(t1) ELSE t1
    IN  strip(t2)

Normalize(v, t) == IF v = "main" THEN NormalizeMain(t) ELSE NormalizeMain1(t)

\* json.loads: succeeds on exactly one JSON body (surrounding whitespace
\* allowed), raises JSONDecodeError otherwise
Decodes(t) == Len(strip(t)) = 1 /\ strip(t)[1] \in JsonTokens
Decode(t) == JsonOf(strip(t)[1])

----------------------------------------------------------------------------
(* File names: sequences of tokens.  "P" is the text ProposalID_, "F" the  *)
(* text _finalproposal, digit tokens are digits, anything else is other    *)
(* text.  Identifiers are sequences of tokens too.                         *)
IsDigit(c) == c \in {"0", "1", "2", "3", "4", "5", "6", "7", "8", "9"}

\* end of the maximal run of digits that starts at i
RECURSIVE RunEnd(_, _)
RunEnd(name, i) ==
    IF i < Len(name) /\ IsDigit(name[i + 1]) THEN RunEnd(name, i + 1) ELSE i

Min(S) == CHOOSE x \in S : \A y \in S : x <= y

\* re.search(r'(?<=ProposalID_)\d+(?=_finalproposal)', filename)
PatternStarts(name) ==
    { i \in 2..Len(name) :
        /\ name[i - 1] = "P"
        /\ IsDigit(name[i])
        /\ RunEnd(name, i) < Len(name)
        /\ name[RunEnd(name, i) + 1] = "F" }

\* re.search(r'\d+', filename)
DigitStarts(name) == { i \in 1..Len(name) : IsDigit(name[i]) }

\* src/main.py, extract_tpn_from_filename; << >> stands for None
extract_tpn_main(name) ==
    IF PatternStarts(name) # {}
    THEN SubSeq(name, Min(PatternStarts(name)), RunEnd(name, Min(PatternStarts(name))))
    ELSE << >>

\* src/main1.py, extract_tpn_from_filename: with the digits-only fallback
extract_tpn_main1(name) ==
    IF PatternStarts(name) # {}
    THEN SubSeq(name, Min(PatternStarts(name)), RunEnd(name, Min(PatternStarts(name))))
    ELSE IF DigitStarts(name) # {}
    THEN SubSeq(name, Min(DigitStarts(name)), RunEnd(name, Min(DigitStarts(name))))
    ELSE << >>

extract_tpn_from_filename(v, name) ==
    IF v = "main" THEN extract_tpn_main(name) ELSE extract_tpn_main1(name)

\* the key under which a file enters pdf_map
MapKey(v, name) ==
    IF extract_tpn_from_filename(v, name) # << >>
    THEN extract_tpn_from_filename(v, name)
    ELSE name

\* pdf_map.get(key): the files under that key in insertion order
PdfMapGet(v, pdfs, key) == SelectSeq(pdfs, LAMBDA pf : MapKey(v, pf) = key)

\* tpn_str in pf.name
Contains(name, s) ==
    \E i \in 1..(Len(name) + 1) :
        /\ i + Len(s) - 1 <= Len(name)
        /\ SubSeq(name, i, i + Len(s) - 1) = s

\* a resolution that scans the file names without consulting the index
matching_pdfs_scan(v, pdfs, tpn_str) ==
    SelectSeq(pdfs, LAMBDA pf : Contains(pf, tpn_str))

\* matching_pdfs after the exact lookup and the substring fallback
matching_pdfs(v, pdfs, tpn_str) ==
    IF PdfMapGet(v, pdfs, tpn_str) # << >>
    THEN PdfMapGet(v, pdfs, tpn_str)
    ELSE SelectSeq(pdfs, LAMBDA pf : Contains(pf, tpn_str))

(* Identifier cells as pandas reads them: NaN, a float (its repr), a string *)
NaN == [kind |-> "nan", text |-> << >>]
Float(t) == [kind |-> "float", text |-> t]
Str(t) == [kind |-> "str", text |-> t]

isna(cell) == cell.kind = "nan"

\* float.is_integer(): the repr ends in .0
is_integer(t) == Len(t) >= 3 /\ t[Len(t) - 1] = "." /\ t[Len(t)] = "0"

\* a normalization that renders every cell with str() alone
tpn_str_plain(cell) == strip(cell.text)

\* lines 220-223 of main.py: the canonical identifier string
tpn_str_of(cell) ==
    IF cell.kind = "float" /\ is_integer(cell.text)
    THEN SubSeq(cell.text, 1, Len(cell.text) - 2)
    ELSE strip(cell.text)

----------------------------------------------------------------------------
(* Paths and workbooks *)
InX == << "in", ".xlsx" >>
InM == << "in", ".xlsm" >>
OutX == << "out", ".xlsx" >>
NoPath == << >>

\* str.replace('.xlsx', '_updated.xlsx')
RECURSIVE replace_xlsx(_)
replace_xlsx(path) ==
    IF path = << >> THEN << >>
    ELSE IF Head(path) = ".xlsx"
    THEN << "_updated", ".xlsx" >> \o replace_xlsx(Tail(path))
    ELSE << Head(path) >> \o replace_xlsx(Tail(path))

Paths == { InX, InM, OutX, replace_xlsx(InX) }

\* pandas reads the headers from sheet row header + 1; data rows follow
FirstDataRow == header + 2
ExcelRows == FirstDataRow..(FirstDataRow + MaxRows - 1)

NoFile == [exists |-> FALSE, has_tpn |-> FALSE, nrows |-> 0,
           tpn |-> [r \in ExcelRows |-> NaN],
           cells |-> [r \in ExcelRows |-> EmptyCells]]

\* pd.read_excel(excel_path, header=4): record k (0-based) is sheet row
\* FirstDataRow + k; a missing 'TPN No.' column reads as missing values
read_excel(book) ==
    [has_tpn |-> book.has_tpn,
     nrows |-> book.nrows,
     rows |-> [k \in 0..(MaxRows - 1) |->
                [tpn |-> IF book.has_tpn THEN book.tpn[FirstDataRow + k] ELSE NaN,
                 filled |-> book.cells[FirstDataRow + k][FilledLetter] # None,
                 cells |-> book.cells[FirstDataRow + k]]]]

\* assignments that leave the cell of a key the result omits as it was
RECURSIVE write_cells_present(_, _, _)
write_cells_present(rowcells, d, ws) ==
    IF ws = << >> THEN rowcells
    ELSE IF Head(ws)[2] \in DOMAIN d.fields
    THEN write_cells_present([rowcells EXCEPT ![Head(ws)[1]] = d.fields[Head(ws)[2]]],
                             d, Tail(ws))
    ELSE write_cells_present(rowcells, d, Tail(ws))

\* the assignments ws[f'{letter}{excel_row}'] = extracted_data.get(key, '-')
RECURSIVE write_cells(_, _, _)
write_cells(rowcells, d, ws) ==
    IF ws = << >> THEN rowcells
    ELSE write_cells([rowcells EXCEPT ![Head(ws)[1]] = Get(d, Head(ws)[2], Sentinel)],
                     d, Tail(ws))

----------------------------------------------------------------------------
(* Sample inputs: sheets, document sets, path arguments, response texts *)
Tpn1 == Float(<< "1", ".", "0" >>)
Tpn1s == Str(<< " ", "1", " " >>)
Tpn2 == Str(<< " ", "2", " " >>)
Tpn9 == Str(<< "9" >>)
Tpn12 == Float(<< "1", "2", ".", "0" >>)
Tpn12s == Str(<< "1", "2" >>)

RowKinds ==
    << [tpn |-> Tpn1, cells |-> EmptyCells],
       [tpn |-> Tpn1s, cells |-> EmptyCells],
       [tpn |-> NaN, cells |-> EmptyCells],
       [tpn |-> Tpn2, cells |-> EmptyCells],
       [tpn |-> Tpn1, cells |-> FilledCells],
       [tpn |-> Tpn9, cells |-> EmptyCells],
       [tpn |-> Tpn12, cells |-> EmptyCells],
       [tpn |-> Tpn12s, cells |-> EmptyCells] >>

KindAt(r, shift) == RowKinds[((r - FirstDataRow + shift) % Len(RowKinds)) + 1]

\* a sheet of n data rows, with or without the 'TPN No.' column
Sheet(shift, tpncol, n) ==
    [exists |-> TRUE, has_tpn |-> tpncol, nrows |-> n,
     tpn |-> [r \in ExcelRows |->
                IF r < FirstDataRow + n THEN KindAt(r, shift).tpn ELSE NaN],
     cells |-> [r \in ExcelRows |->
                IF r < FirstDataRow + n THEN KindAt(r, shift).cells ELSE EmptyCells]]

Sheets ==
    { Sheet(k, TRUE, MaxRows) : k \in 0..(Len(RowKinds) - 1) } \cup
    { Sheet(0, FALSE, MaxRows), Sheet(0, FALSE, 0), Sheet(0, TRUE, 0) }

Doc1 == << "P", "1", "F", ".pdf" >>
Doc2 == << "P", "2", "F", ".pdf" >>
Doc1x == << "P", "1", "F", "x", ".pdf" >>
Scan12 == << "x", "1", "2", ".pdf" >>

PdfSets == { << Doc1, Doc2 >>, << >>, << Scan12, Doc1, Doc1x >> }

\* the arguments excel_path, output_path of a run
PathArgs == { << InX, NoPath >>, << InX, OutX >>, << InM, NoPath >> }

\* what generate can return as text
Responses ==
    { << tok >> : tok \in JsonTokens } \cup
    { << "note" >>,
      << "FENCE_JSON", " ", "{full-yes}", " ", "FENCE" >>,
      << "FENCE_JSON", "{full-yes}", "FENCE", "note" >>,
      << " ", "FENCE", "{full-no}", "FENCE" >>,
      << "FENCE_JSON", "{full-no}" >>,
      << "{full-no}", " ", "FENCE" >> }

\* no record resolved yet
Unresolved ==
    [i \in 0..(MaxRows - 1) |-> [done |-> FALSE, id |-> << >>, found |-> << >>]]

----------------------------------------------------------------------------
Init ==
    /\ variant \in {"main", "main1"}
    /\ \E book \in Sheets, args \in PathArgs :
          /\ files = [p \in Paths |-> IF p = args[1] THEN book ELSE NoFile]
          /\ excel_path = args[1]
          /\ output_path = args[2]
    /\ pdf_files \in PdfSets
    /\ run = 0
    /\ pc = "idle"
    /\ wb = NoFile
    /\ df = read_excel(NoFile)
    /\ row_idx = 0
    /\ cur_pdf = << >>
    /\ upload_attempts = 0
    /\ attempt = 0
    /\ pdf_file = 0
    /\ data = PyNone
    /\ ret = PyNone
    /\ next_handle = 0
    /\ released = {}
    /\ del_raised = FALSE
    /\ up_hist = << >>
    /\ gen_hist = << >>
    /\ last_text = << >>
    /\ live = 0
    /\ resolved = Unresolved
    /\ log = {}
    /\ okRows = {}
    /\ persisted = {}

\* the locals of extract_from_pdf at its entry
EnterExtract ==
    /\ upload_attempts' = 0
    /\ attempt' = 0
    /\ pdf_file' = 0
    /\ data' = PyNone
    /\ ret' = PyNone
    /\ next_handle' = 0
    /\ released' = {}
    /\ del_raised' = FALSE
    /\ up_hist' = << >>
    /\ gen_hist' = << >>
    /\ last_text' = << >>

CallLocals == << upload_attempts, attempt, pdf_file, data, ret, next_handle,
                 released, del_raised, up_hist, gen_hist, last_text >>

Inputs == << variant, pdf_files, excel_path >>

\* wb.save(output_path)
Save(book) ==
    /\ files' = [files EXCEPT ![output_path] = book]
    /\ persisted' = persisted \cup okRows'

\* src/main.py, lines 174-205: from the entry to the row loop
BeginMain ==
    /\ run' = run + 1
    /\ output_path' = IF output_path = NoPath THEN replace_xlsx(excel_path)
                       ELSE output_path
    /\ wb' = files[excel_path]
    /\ df' = read_excel(files[excel_path])
    /\ row_idx' = 0
    /\ okRows' = {}
    /\ cur_pdf' = << >>
    /\ live' = 0
    /\ resolved' = Unresolved
    /\ EnterExtract
    /\ IF pdf_files = << >>
       THEN pc' = "returned" /\ log' = { << 0, "no pdf files" >> }
       ELSE IF ~files[excel_path].has_tpn
       THEN pc' = "returned" /\ log' = { << 0, "no tpn column" >> }
       ELSE pc' = "loop" /\ log' = {}
    /\ UNCHANGED << Inputs, files, persisted >>

\* src/main1.py, lines 102-135: from the entry to the row loop
BeginMain1 ==
    /\ run' = run + 1
    /\ output_path' = IF output_path = NoPath THEN replace_xlsx(excel_path)
                       ELSE output_path
    /\ wb' = files[excel_path]
    /\ df' = read_excel(files[excel_path])
    /\ row_idx' = 0
    /\ okRows' = {}
    /\ cur_pdf' = << >>
    /\ live' = 0
    /\ resolved' = Unresolved
    /\ EnterExtract
    /\ IF pdf_files = << >>
       THEN pc' = "returned" /\ log' = { << 0, "no pdf files" >> }
       ELSE pc' = "loop" /\ log' = {}
    /\ UNCHANGED << Inputs, files, persisted >>

Begin == IF variant = "main" THEN BeginMain ELSE BeginMain1

StartRun == pc = "idle" /\ Begin

\* excel_row = row_idx + 6
excel_row(i) == i + 6

\* a row update that does not test the result before writing
update_row_always(book, i, d, v) ==
    [book EXCEPT !.cells[excel_row(i)] = write_cells(@, d, Writes(v))]

\* lines 240-258 of main.py: the workbook after the result d of record i
update_row(book, i, d, v) ==
    IF Truthy(d)
    THEN [book EXCEPT !.cells[excel_row(i)] = write_cells(@, d, Writes(v))]
    ELSE book

Say(msg) == log' = log \cup { << excel_row(row_idx), msg >> }

\* print a diagnostic and leave the row loop
SkipRow_break(msg) ==
    /\ Say(msg)
    /\ row_idx' = df.nrows
    /\ UNCHANGED << pc, cur_pdf, files, persisted, okRows >>

\* print a diagnostic and continue with the next record
SkipRow(msg) ==
    /\ Say(msg)
    /\ row_idx' = row_idx + 1
    /\ UNCHANGED << pc, cur_pdf, files, persisted, okRows >>

\* tpn_str and matching_pdfs of the current record, as the loop computed them
Resolve(tpn_str, found) ==
    resolved' = [resolved EXCEPT ![row_idx] =
                    [done |-> TRUE, id |-> tpn_str, found |-> found]]

\* pdf_file = matching_pdfs[0]; extracted_data = self.extract_from_pdf(pdf_file)
CallExtract(found, msgs) ==
    /\ log' = log \cup { << excel_row(row_idx), msg >> : msg \in msgs }
    /\ cur_pdf' = found[1]
    /\ pc' = "upload"
    /\ UNCHANGED << row_idx, files, persisted, okRows >>

\* src/main.py, lines 207-239: one iteration of the row loop, up to the
\* call of extract_from_pdf
RowStepMain ==
    /\ variant = "main"
    /\ pc = "loop"
    /\ row_idx < df.nrows
    /\ LET row == df.rows[row_idx]
           found == matching_pdfs(variant, pdf_files, tpn_str_of(row.tpn))
       IN  IF row.filled THEN SkipRow("already filled") /\ UNCHANGED resolved
           ELSE IF isna(row.tpn) THEN SkipRow("empty tpn") /\ UNCHANGED resolved
           ELSE IF found = << >>
           THEN SkipRow("no pdf") /\ Resolve(tpn_str_of(row.tpn), found)
           ELSE CallExtract(found, {"processing"}) /\ Resolve(tpn_str_of(row.tpn), found)
    /\ EnterExtract
    /\ UNCHANGED << Inputs, output_path, run, wb, df, live >>

\* src/main1.py, lines 137-177: one iteration of the row loop, up to the
\* call of extract_from_pdf; a missing column breaks out of the loop to
\* the save and the summary
RowStepMain1 ==
    /\ variant = "main1"
    /\ pc = "loop"
    /\ row_idx < df.nrows
    /\ LET row == df.rows[row_idx]
           found == matching_pdfs(variant, pdf_files, tpn_str_of(row.tpn))
       IN  IF ~df.has_tpn
           THEN /\ log' = log \cup { << excel_row(row_idx), "no tpn column" >>,
                                     << 0, "summary" >> }
                /\ pc' = "done"
                /\ UNCHANGED << row_idx, cur_pdf, okRows, resolved >>
                /\ Save(wb)
           ELSE IF isna(row.tpn) THEN SkipRow("empty tpn") /\ UNCHANGED resolved
           ELSE IF found = << >>
           THEN SkipRow("no pdf") /\ Resolve(tpn_str_of(row.tpn), found)
           ELSE /\ CallExtract(found,
                      IF Len(found) > 1 THEN {"multiple pdfs", "processing"}
                      ELSE {"processing"})
                /\ Resolve(tpn_str_of(row.tpn), found)
    /\ EnterExtract
    /\ UNCHANGED << Inputs, output_path, run, wb, df, live >>

\* what an extract_from_pdf step leaves alone
ExtractFrame ==
    UNCHANGED << Inputs, files, output_path, run, wb, df, row_idx, cur_pdf,
                 resolved, log, okRows, persisted >>

\* src/main.py, lines 86-101: genai.upload_file returns a new handle or
\* raises; a raise is counted and the upload tried again while
\* upload_attempts <= max_retries
UploadMain(outcome) ==
    /\ variant = "main"
    /\ pc = "upload"
    /\ up_hist' = Append(up_hist, outcome)
    /\ IF outcome = "ok"
       THEN /\ next_handle' = next_handle + 1
            /\ pdf_file' = next_handle + 1
            /\ live' = live + 1
            /\ pc' = "generate"
            /\ UNCHANGED << upload_attempts, ret >>
       ELSE /\ upload_attempts' = upload_attempts + 1
            /\ IF upload_attempts + 1 <= max_retries
               THEN pc' = "upload"
               ELSE pc' = "extracted"
            /\ ret' = PyNone
            /\ UNCHANGED << next_handle, pdf_file, live >>
    /\ UNCHANGED << attempt, data, released, del_raised, gen_hist, last_text >>
    /\ ExtractFrame

\* src/main1.py, lines 32-35, 88-90: the upload is inside the try of the
\* attempt loop; a raise returns None
UploadMain1(outcome) ==
    /\ variant = "main1"
    /\ pc = "upload"
    /\ up_hist' = Append(up_hist, outcome)
    /\ IF outcome = "ok"
       THEN /\ next_handle' = next_handle + 1
            /\ pdf_file' = next_handle + 1
            /\ live' = live + 1
            /\ pc' = "generate"
            /\ UNCHANGED ret
       ELSE /\ ret' = PyNone
            /\ pc' = "extracted"
            /\ UNCHANGED << next_handle, pdf_file, live >>
    /\ UNCHANGED << upload_attempts, attempt, data, released, del_raised,
                    gen_hist, last_text >>
    /\ ExtractFrame

\* outcome of a generate call as the code sees it; << "raise" >> stands
\* for a call that raises
GenKind(outcome) ==
    IF outcome = << "raise" >> THEN "raise"
    ELSE IF Decodes(Normalize(variant, outcome)) THEN "decoded"
    ELSE "undecodable"

\* src/main.py, lines 104-125, 135-167: generate, normalize, json.loads;
\* both except clauses retry while attempt < max_retries, else delete the
\* handle and return None
GenerateMain(outcome) ==
    /\ variant = "main"
    /\ pc = "generate"
    /\ gen_hist' = Append(gen_hist, GenKind(outcome))
    /\ last_text' = outcome
    /\ IF GenKind(outcome) = "decoded"
       THEN /\ data' = Decode(Normalize(variant, outcome))
            /\ pc' = "delete"
            /\ UNCHANGED attempt
       ELSE IF attempt < max_retries
       THEN /\ attempt' = attempt + 1
            /\ UNCHANGED << pc, data >>
       ELSE /\ data' = PyNone
            /\ pc' = "delete"
            /\ UNCHANGED attempt
    /\ UNCHANGED << upload_attempts, pdf_file, ret, next_handle, released,
                    del_raised, up_hist, live >>
    /\ ExtractFrame

\* src/main1.py, lines 48-90: generate, normalize, json.loads, validation;
\* both except clauses return None; missing fields with attempts left
\* continue the loop, which uploads again
GenerateMain1(outcome) ==
    /\ variant = "main1"
    /\ pc = "generate"
    /\ gen_hist' = Append(gen_hist, GenKind(outcome))
    /\ last_text' = outcome
    /\ IF GenKind(outcome) # "decoded"
       THEN /\ ret' = PyNone
            /\ pc' = "extracted"
            /\ UNCHANGED << attempt, data >>
       ELSE LET d == Decode(Normalize(variant, outcome))
            IN  IF ~HasIn(d)
                THEN \* TypeError in the validation, caught: return None
                     /\ ret' = PyNone
                     /\ pc' = "extracted"
                     /\ UNCHANGED << attempt, data >>
                ELSE IF missing_fields(d) # << >> /\ attempt < max_retries
                THEN /\ attempt' = attempt + 1
                     /\ pc' = "upload"
                     /\ UNCHANGED << data, ret >>
                ELSE /\ data' = d
                     /\ pc' = "delete"
                     /\ UNCHANGED << attempt, ret >>
    /\ UNCHANGED << upload_attempts, pdf_file, next_handle, released,
                    del_raised, up_hist, live >>
    /\ ExtractFrame

\* src/main.py, lines 127-133, 146-150, 162-167: pdf_file.delete() with
\* its error swallowed, then the return
DeleteMain(outcome) ==
    /\ variant = "main"
    /\ pc = "delete"
    /\ released' = released \cup { pdf_file }
    /\ live' = IF pdf_file \in released THEN live ELSE live - 1
    /\ del_raised' = (outcome = "raise")
    /\ ret' = data
    /\ pc' = "extracted"
    /\ UNCHANGED << upload_attempts, attempt, pdf_file, data, next_handle,
                    up_hist, gen_hist, last_text >>
    /\ ExtractFrame

\* src/main1.py, lines 79-82, 88-90: pdf_file.delete() inside the try; a
\* raise is caught by except Exception, which returns None
DeleteMain1(outcome) ==
    /\ variant = "main1"
    /\ pc = "delete"
    /\ released' = released \cup { pdf_file }
    /\ live' = IF pdf_file \in released THEN live ELSE live - 1
    /\ del_raised' = (outcome = "raise")
    /\ ret' = IF outcome = "raise" THEN PyNone ELSE data
    /\ pc' = "extracted"
    /\ UNCHANGED << upload_attempts, attempt, pdf_file, data, next_handle,
                    up_hist, gen_hist, last_text >>
    /\ ExtractFrame

\* lines 240-263 of main.py: write the result or report the failure;
\* extracted_data.get on a value that is no dict raises AttributeError,
\* which nothing catches
ApplyResult ==
    IF Truthy(ret) /\ ~HasGet(ret)
    THEN /\ pc' = "crashed"
         /\ UNCHANGED << wb, okRows, log, row_idx >>
    ELSE /\ IF Truthy(ret)
            THEN okRows' = okRows \cup { row_idx } /\ Say("updated")
            ELSE UNCHANGED okRows /\ Say("could not extract")
         /\ wb' = update_row(wb, row_idx, ret, variant)
         /\ row_idx' = row_idx + 1
         /\ pc' = "loop"

\* src/main.py, lines 239-267: the row loop after extract_from_pdf
\* returned: write, report, save
WriteRowMain ==
    /\ variant = "main"
    /\ pc = "extracted"
    /\ ApplyResult
    /\ IF pc' = "crashed" THEN UNCHANGED << files, persisted >> ELSE Save(wb')
    /\ UNCHANGED << Inputs, output_path, run, df, cur_pdf, CallLocals, live,
                    resolved >>

\* src/main1.py, lines 177-201: the row loop after extract_from_pdf
\* returned: write, report
WriteRowMain1 ==
    /\ variant = "main1"
    /\ pc = "extracted"
    /\ ApplyResult
    /\ UNCHANGED << files, persisted >>
    /\ UNCHANGED << Inputs, output_path, run, df, cur_pdf, CallLocals, live,
                    resolved >>

\* src/main.py, lines 269-271: after the last record, the summary
EndRunMain ==
    /\ variant = "main"
    /\ pc = "loop"
    /\ row_idx >= df.nrows
    /\ pc' = "done"
    /\ log' = log \cup { << 0, "summary" >> }
    /\ UNCHANGED << Inputs, output_path, run, wb, df, row_idx, cur_pdf, okRows,
                    CallLocals, files, persisted, live, resolved >>

\* src/main1.py, lines 203-207: after the last record, the save and the
\* summary
EndRunMain1 ==
    /\ variant = "main1"
    /\ pc = "loop"
    /\ row_idx >= df.nrows
    /\ pc' = "done"
    /\ log' = log \cup { << 0, "summary" >> }
    /\ UNCHANGED << Inputs, output_path, run, wb, df, row_idx, cur_pdf, okRows,
                    CallLocals, live, resolved >>
    /\ Save(wb)

\* the process is terminated in the middle of a run: memory is lost
Kill ==
    /\ pc \in {"loop", "upload", "generate", "delete", "extracted"}
    /\ pc' = "killed"
    /\ wb' = NoFile
    /\ df' = read_excel(NoFile)
    /\ row_idx' = 0
    /\ cur_pdf' = << >>
    /\ live' = 0
    /\ resolved' = Unresolved
    /\ log' = {}
    /\ okRows' = {}
    /\ EnterExtract
    /\ UNCHANGED << Inputs, files, output_path, run, persisted >>

\* the pipeline is started again with the same arguments
Rerun ==
    /\ pc \in {"done", "returned", "crashed", "killed"}
    /\ run < MaxRuns
    /\ Begin

Steps(responses) ==
    \/ StartRun
    \/ RowStepMain
    \/ RowStepMain1
    \/ \E o \in {"ok", "raise"} : UploadMain(o)
    \/ \E o \in {"ok", "raise"} : UploadMain1(o)
    \/ \E o \in responses : GenerateMain(o)
    \/ \E o \in responses : GenerateMain1(o)
    \/ \E o \in {"ok", "raise"} : DeleteMain(o)
    \/ \E o \in {"ok", "raise"} : DeleteMain1(o)
    \/ WriteRowMain
    \/ WriteRowMain1
    \/ EndRunMain
    \/ EndRunMain1

Next == Steps(Responses \cup { << "raise" >> })

Spec == Init /\ [][Next]_vars

\* the runs of src/main.py alone
InitMain == Init /\ variant = "main"
SpecMain == InitMain /\ [][Next]_vars

\* runs that can be terminated and repeated; the service either raises or
\* answers with a complete object
RerunResponses == { << "raise" >>, << "{full-yes}" >> }

NextRerun ==
    \/ Steps(RerunResponses)
    \/ Kill
    \/ Rerun

SpecRerun == Init /\ [][NextRerun]_vars

----------------------------------------------------------------------------
(* Helpers of the properties *)
InCall == pc \in {"upload", "generate", "delete"}
AllRaise(h) == \A i \in 1..Len(h) : h[i] = "raise"
Last(h) == h[Len(h)]
RowCells(book, i) == book.cells[excel_row(i)]
Records == 0..(MaxRows - 1)

----------------------------------------------------------------------------
(* C1: no outcome of the service calls of a record aborts the run: the row *)
(* loop always goes on, no exception escapes update_excel_with_proposals.  *)
C1_NeverAborts == pc # "crashed"

(* C2: a record that an earlier run extracted, wrote and saved gets no     *)
(* upload and no generate call in a later run with the same arguments.     *)
C2_NoRespend == (run >= 2 /\ pc \in {"upload", "generate"}) => row_idx \notin persisted

(* C3: a record whose already-processed field is non-empty in the loaded   *)
(* sheet gets no upload, generate or release call, and its cells L..AB in  *)
(* the workbook stay as loaded.                                            *)
C3_FilledUntouched ==
    pc \notin {"idle", "returned"} =>
        \A i \in Records :
            df.rows[i].filled =>
                /\ ~(InCall /\ row_idx = i)
                /\ RowCells(wb, i) = df.rows[i].cells

(* C4: at every point of a run the saved output file holds the written     *)
(* fields of every record this run has written from a result.              *)
C4_SavedAfterEveryRecord ==
    \A i \in okRows :
        /\ files[output_path].exists
        /\ RowCells(files[output_path], i) = RowCells(wb, i)

(* C5: upload is retried: after one or two raising uploads the call is     *)
(* about to upload again; when every upload raises there are at most       *)
(* max_retries + 1 upload calls, no generate call, and the call returns    *)
(* None without raising.                                                   *)
C5_UploadRetried ==
    (up_hist # << >> /\ AllRaise(up_hist)) =>
        /\ Len(up_hist) <= max_retries + 1
        /\ Len(up_hist) <= max_retries => pc = "upload"
        /\ gen_hist = << >>
        /\ ret = PyNone
        /\ pc # "crashed"

(* C6: an undecodable response is followed by another generate call on the *)
(* same handle, without a new upload, until max_retries + 1 generate calls *)
(* were made; after the last one the call returns None.                    *)
C6_DecodeRetried ==
    (gen_hist # << >> /\ Last(gen_hist) = "undecodable") =>
        IF Len(gen_hist) < max_retries + 1
        THEN pc = "generate" /\ next_handle = 1 /\ pdf_file = 1
        ELSE /\ pc \notin {"generate", "upload"}
             /\ data = PyNone
             /\ pc # "delete" => ret = PyNone

(* C7: when extract_from_pdf has returned, delete was called on every      *)
(* handle an upload returned during the call.                              *)
C7_AllReleased == pc = "extracted" => \A h \in 1..next_handle : h \in released

(* C8: when the delete call raises, extract_from_pdf returns what it would *)
(* have returned had delete succeeded.                                     *)
C8_CleanupNeverMasks == (pc = "extracted" /\ del_raised) => ret = data

(* C9: when extract_from_pdf returned None for a record, the row handler   *)
(* changes no cell of the workbook, and a save it makes stores exactly     *)
(* that unmodified workbook.                                               *)
C9_FailedWritesNothing ==
    [][ (pc = "extracted" /\ ret = PyNone) =>
            /\ wb' = wb
            /\ \/ files' = files
               \/ files' = [files EXCEPT ![output_path] = wb] ]_vars

\* a record failed after three undecodable responses, the loop went on and
\* the saved row is the loaded row
C9_Witness ==
    /\ pc = "loop"
    /\ row_idx > 0
    /\ << excel_row(row_idx - 1), "could not extract" >> \in log
    /\ ret = PyNone
    /\ Len(gen_hist) = max_retries + 1
    /\ Last(gen_hist) = "undecodable"
    /\ files[output_path].exists
    /\ RowCells(files[output_path], row_idx - 1) = df.rows[row_idx - 1].cells
    /\ RowCells(wb, row_idx - 1) = df.rows[row_idx - 1].cells

(* C10: for a result that is an object omitting one or more of the 17      *)
(* keys, the row handler writes all 17 cells L..AB of the record's row:    *)
(* the value of each present key, the sentinel for each omitted key.       *)
C10_MissingDefaulted ==
    [][ (pc = "extracted" /\ ret.kind = "object" /\ Keys \ DOMAIN ret.fields # {}) =>
            \A j \in 1..Len(WritesMain) :
                wb'.cells[excel_row(row_idx)][WritesMain[j][1]] =
                    Get(ret, WritesMain[j][2], Sentinel) ]_vars

----------------------------------------------------------------------------
(* Shapes of response text, described without the normalization *)
NoWs(t) == SelectSeq(t, LAMBDA tok : tok # " ")
IsOpenFence(tok) == tok \in {"FENCE_JSON", "FENCE"}

\* opening fence, block, closing fence, then prose outside the fence
FencedWithTrailingText(t) ==
    /\ Len(NoWs(t)) = 4
    /\ IsOpenFence(NoWs(t)[1])
    /\ NoWs(t)[2] \in JsonTokens
    /\ NoWs(t)[3] = "FENCE"
    /\ NoWs(t)[4] \notin JsonTokens \cup {"FENCE", "FENCE_JSON"}

\* the block with a leading fence marker, a trailing one, or both
FencedOnly(t) ==
    \/ Len(NoWs(t)) = 3 /\ IsOpenFence(NoWs(t)[1]) /\ NoWs(t)[2] \in JsonTokens
                        /\ NoWs(t)[3] = "FENCE"
    \/ Len(NoWs(t)) = 2 /\ IsOpenFence(NoWs(t)[1]) /\ NoWs(t)[2] \in JsonTokens
    \/ Len(NoWs(t)) = 2 /\ NoWs(t)[1] \in JsonTokens /\ NoWs(t)[2] = "FENCE"

\* the structured block of a response text
BlockOf(t) == CHOOSE tok \in JsonTokens : \E i \in 1..Len(t) : t[i] = tok

(* C11: a response whose block is fenced and followed by text outside the  *)
(* closing fence, or that has only leading and/or trailing fence markers,  *)
(* decodes, and to the object the bare block decodes to.                   *)
C11_FencedResponseParses ==
    (last_text # << >> /\ (FencedWithTrailingText(last_text) \/ FencedOnly(last_text))) =>
        /\ Last(gen_hist) = "decoded"
        /\ pc = "delete" => data = JsonOf(BlockOf(last_text))

----------------------------------------------------------------------------
(* f holds exactly the documents of pdfs that satisfy P, in the order of   *)
(* pdfs: its k-th element is the k-th document of pdfs that satisfies P.   *)
ExactlyInOrder(f, pdfs, P(_)) ==
    LET hits == { i \in 1..Len(pdfs) : P(pdfs[i]) }
        rank(i) == Cardinality({ j \in hits : j <= i })
    IN  /\ Len(f) = Cardinality(hits)
        /\ \A i \in hits : f[rank(i)] = pdfs[i]

\* the candidate index has an entry for the identifier
InIndex(id) == \E k \in 1..Len(pdf_files) : MapKey(variant, pdf_files[k]) = id

(* C12: a record's candidates are exactly the index entry of its           *)
(* identifier when there is one, otherwise exactly the discovered          *)
(* documents whose file name contains the identifier, in discovery order.  *)
C12_Resolution ==
    \A i \in Records :
        resolved[i].done =>
            IF InIndex(resolved[i].id)
            THEN ExactlyInOrder(resolved[i].found, pdf_files,
                                LAMBDA pf : MapKey(variant, pf) = resolved[i].id)
            ELSE ExactlyInOrder(resolved[i].found, pdf_files,
                                LAMBDA pf : Contains(pf, resolved[i].id))

\* a record resolved through the index although another document's name
\* contains its identifier
C12_Witness ==
    \E i \in Records :
        /\ resolved[i].done
        /\ InIndex(resolved[i].id)
        /\ resolved[i].found # << >>
        /\ \E k \in 1..Len(pdf_files) :
              /\ Contains(pdf_files[k], resolved[i].id)
              /\ \A j \in 1..Len(resolved[i].found) : resolved[i].found[j] # pdf_files[k]

(* C13: when more than one candidate resolves for a record, the first in   *)
(* discovery order is the one extracted and a diagnostic naming the        *)
(* ambiguity is printed for that record.                                   *)
C13_AmbiguityReported ==
    \A i \in Records :
        (resolved[i].done /\ Len(resolved[i].found) > 1) =>
            /\ << excel_row(i), "multiple pdfs" >> \in log
            /\ (InCall /\ row_idx = i) => cur_pdf = resolved[i].found[1]

----------------------------------------------------------------------------
\* t is the digit string d, possibly surrounded by whitespace
IsPadded(t, d) ==
    \E a \in 1..Len(t) :
        /\ a + Len(d) - 1 <= Len(t)
        /\ SubSeq(t, a, a + Len(d) - 1) = d
        /\ \A k \in 1..Len(t) : (k < a \/ k > a + Len(d) - 1) => t[k] = " "

\* cell a holds the integral number n.0 and cell b the string of n
SameNumber(a, b) ==
    /\ a.kind = "float"
    /\ b.kind = "str"
    /\ \E n \in 1..(Len(a.text) - 2) :
          /\ Len(a.text) = n + 2
          /\ a.text[n + 1] = "."
          /\ a.text[n + 2] = "0"
          /\ \A k \in 1..n : IsDigit(a.text[k])
          /\ IsPadded(b.text, SubSeq(a.text, 1, n))

(* C14: a record whose identifier cell is the integral number n.0 and a    *)
(* record whose cell is the string of n, with or without surrounding       *)
(* whitespace, get the same identifier string, the digits of n, and the    *)
(* same candidate documents.                                               *)
C14_SameIdentifier ==
    \A i, j \in Records :
        (resolved[i].done /\ resolved[j].done
            /\ SameNumber(df.rows[i].tpn, df.rows[j].tpn)) =>
            /\ resolved[i].id = resolved[j].id
            /\ IsPadded(resolved[i].id, resolved[j].id)
            /\ \A k \in 1..Len(resolved[i].id) : IsDigit(resolved[i].id[k])
            /\ resolved[i].found = resolved[j].found

\* a number cell and a padded string cell of the same sheet resolved to
\* the same document
C14_Witness ==
    \E i, j \in Records :
        /\ resolved[i].done
        /\ resolved[j].done
        /\ SameNumber(df.rows[i].tpn, df.rows[j].tpn)
        /\ df.rows[j].tpn.text # resolved[j].id
        /\ resolved[i].found # << >>
        /\ resolved[i].found[1] = resolved[j].found[1]

----------------------------------------------------------------------------
\* no discovered file is indexed under, or contains, the identifier of cell
NoDocument(cell) ==
    \A k \in 1..Len(pdf_files) :
        /\ MapKey(variant, pdf_files[k]) # tpn_str_of(cell)
        /\ ~Contains(pdf_files[k], tpn_str_of(cell))

\* record i of the loaded sheet has an empty identifier or no candidate
SkippedRecord(i) ==
    /\ i < df.nrows
    /\ df.has_tpn
    /\ isna(df.rows[i].tpn) \/ NoDocument(df.rows[i].tpn)

(* C15: a record whose identifier is empty, or resolves to no candidate    *)
(* document, gets no upload, generate or release call and none of its      *)
(* cells is written; the loop moves on to the next record in source order. *)
C15_SkippedCostNothing ==
    /\ [](\A i \in Records :
            SkippedRecord(i) =>
                /\ row_idx = i => pc \in {"idle", "loop", "returned", "done"}
                /\ pc # "idle" => RowCells(wb, i) = df.rows[i].cells
                /\ i \notin okRows)
    /\ [][\A i \in Records :
            (pc = "loop" /\ row_idx = i /\ SkippedRecord(i)) =>
                /\ pc' = "loop"
                /\ row_idx' = i + 1
                /\ wb' = wb
                /\ live' = live]_vars

\* a record was skipped and the record after it was populated
C15_Witness ==
    /\ pc = "loop"
    /\ row_idx = 2
    /\ SkippedRecord(0)
    /\ okRows = {1}
    /\ << excel_row(1), "updated" >> \in log
    /\ RowCells(wb, 0) = df.rows[0].cells
    /\ RowCells(wb, 1) # df.rows[1].cells

----------------------------------------------------------------------------
(* C16: no save of the run lands on excel_path, also when output_path is  *)
(* derived from excel_path: the rows of the input file stay what the run   *)
(* loaded from it.                                                         *)
C16_SourceNotMutated ==
    pc # "idle" =>
        \A i \in Records :
            i < df.nrows => RowCells(files[excel_path], i) = df.rows[i].cells

----------------------------------------------------------------------------
(* C17: when the loaded sheet has no TPN No. column (and documents were    *)
(* discovered), the run makes no service call, writes no cell and ends     *)
(* having reported the missing column, whatever the number of data rows.   *)
C17_MissingColumnFatal ==
    (pc # "idle" /\ ~df.has_tpn /\ pdf_files # << >>) =>
        /\ ~InCall
        /\ wb = files[excel_path]
        /\ pc \in {"returned", "done"} =>
              \E r \in {0} \cup { excel_row(i) : i \in Records } :
                  << r, "no tpn column" >> \in log

----------------------------------------------------------------------------
Targets(v) == { Writes(v)[k][1] : k \in 1..Len(Writes(v)) }

----------------------------------------------------------------------------
(* C19: at every moment of a run at most one uploaded handle has not been  *)
(* released (a delete call counts as a release), none between two records, *)
(* and none when the run has ended.                                        *)
C19_OneInFlight ==
    /\ live <= 1
    /\ pc \in {"loop", "extracted", "returned", "done"} => live = 0

----------------------------------------------------------------------------
\* the decoded value d lacks one of the keys col_l .. col_z
LacksRequired(d) ==
    \/ d.kind # "object"
    \/ \E k \in 1..Len(required_fields) : required_fields[k] \notin DOMAIN d.fields

(* C20: in main1.py, after a generate call whose text decoded: when a      *)
(* required key is missing and fewer than max_retries + 1 attempts were    *)
(* made, the result is not accepted and the next attempt starts; otherwise *)
(* (all required keys present, or the last attempt) the decoded value is   *)
(* what extract_from_pdf returns.                                          *)
C20_StrictMode ==
    (/\ variant = "main1"
     /\ InCall \/ pc = "extracted"
     /\ gen_hist # << >>
     /\ Len(up_hist) = Len(gen_hist)
     /\ Last(gen_hist) = "decoded") =>
        LET d == Decode(Normalize(variant, last_text))
        IN  IF LacksRequired(d) /\ Len(gen_hist) < max_retries + 1
            THEN pc = "upload"
            ELSE /\ pc \in {"delete", "extracted"}
                 /\ pc = "extracted" => ret = d

----------------------------------------------------------------------------
\* position of a schema key: col_l is the first, col_ab the seventeenth
KeyPos(key) == CHOOSE k \in 1..Len(KeySeq) : KeySeq[k] = key

\* the letter of the target column with 1-indexed sheet position n
LetterAt(n) == CHOOSE c \in Letters : column_index(ColumnChars(c)) = n

(* C21: when the row handler gets a successful result for record i, the    *)
(* value of every schema key, col_l the first through col_ab the           *)
(* seventeenth, is written to sheet columns 12 through 28 in that order,   *)
(* in sheet row i + 6, the row record i was read from and whose identifier *)
(* resolved the document; no other row changes.                            *)
C21_ExactCells ==
    [][(pc = "extracted" /\ ret.kind = "object" /\ DOMAIN ret.fields # {}) =>
        LET i == row_idx
            new == wb'.cells[FirstDataRow + i]
        IN  /\ excel_row(i) = FirstDataRow + i
            /\ resolved[i].done
            /\ resolved[i].id = tpn_str_of(df.rows[i].tpn)
            /\ cur_pdf = resolved[i].found[1]
            /\ \A key \in DOMAIN ret.fields \cap Keys :
                  new[LetterAt(11 + KeyPos(key))] = ret.fields[key]
            /\ \A r \in ExcelRows \ {FirstDataRow + i} : wb'.cells[r] = wb.cells[r]]_vars

----------------------------------------------------------------------------
(* C22: when the run has passed its initial checks and printed the final   *)
(* summary that announces the output path, the file at output_path exists  *)
(* and equals the workbook in memory, also when every record was skipped.  *)
C22_SummaryMeansSaved ==
    (pc = "done" /\ << 0, "summary" >> \in log) =>
        /\ files[output_path].exists
        /\ files[output_path] = wb

====
